---- MODULE Spec2Model ----
(***************************************************************************)
(* A model of src/src/http.rs: the message grammar (Protocol, Method,      *)
(* StatusCode), the request decoder Request::from_bytes and the response   *)
(* builder/encoder Response.                                               *)
(*                                                                         *)
(* Rust's &str / String / &[u8] are modelled alike as sequences of bytes   *)
(* (integers 0..255); a &str is such a sequence that is valid UTF-8.       *)
(* B("...") writes an ASCII literal as its bytes.                          *)
(***************************************************************************)
EXTENDS Integers, Sequences, FiniteSets, TLC

VARIABLES
    tok,        \* grammar: the token handed to TryFrom<&str>
    res,        \* grammar: the last result of a TryFrom / From call
    rendered,   \* grammar: the Protocol the token was rendered from, if any
    buf,        \* decoder: the byte buffer handed to Request::from_bytes
    inp,        \* decoder: the pieces the caller assembled buf from
    outcome,    \* decoder: what the call to from_bytes ended in
    clen,       \* decoder: the result of the last content_len call, if any
    resp,       \* encoder: the Response value (protocol, status_code, headers, body)
    calls,      \* encoder: the calls made on the value since Response::new()
    ser         \* encoder: the last serialise call (its pre-state and its output)

vars == <<tok, res, rendered, buf, inp, outcome, clen, resp, calls, ser>>

grammarVars == <<tok, res, rendered>>
requestVars == <<buf, inp, outcome, clen>>
responseVars == <<resp, calls, ser>>

----------------------------------------------------------------------------
(* Bytes and literals *)

\* The ASCII characters of bytes 32..95 and of bytes 97..126, in order.
PrintableLow == " !\"#$%&'()*+,-./0123456789:;<=>?@ABCDEFGHIJKLMNOPQRSTUVWXYZ[\\]^_"
PrintableHigh == "abcdefghijklmnopqrstuvwxyz{|}~"

\* The byte of a one-character ASCII string.
Code(c) ==
    IF c = "\t" THEN 9
    ELSE IF c = "\n" THEN 10
    ELSE IF c = "\f" THEN 12
    ELSE IF c = "\r" THEN 13
    ELSE IF \E i \in 1..Len(PrintableLow) : SubSeq(PrintableLow, i, i) = c
         THEN 31 + (CHOOSE i \in 1..Len(PrintableLow) : SubSeq(PrintableLow, i, i) = c)
    ELSE 96 + (CHOOSE i \in 1..Len(PrintableHigh) : SubSeq(PrintableHigh, i, i) = c)

\* The bytes of all the ASCII characters literals are written with.
CodeTable ==
    [c \in {"\t", "\n", "\f", "\r"}
            \cup {SubSeq(PrintableLow, i, i) : i \in 1..Len(PrintableLow)}
            \cup {SubSeq(PrintableHigh, i, i) : i \in 1..Len(PrintableHigh)} |-> Code(c)]

\* str::as_bytes of an ASCII literal.
B(s) == [i \in 1..Len(s) |-> CodeTable[SubSeq(s, i, i)]]

\* Option<T>
None == [some |-> FALSE]
Some(v) == [some |-> TRUE, val |-> v]

\* Result<T, Error>
Ok(v) == [ok |-> TRUE, val |-> v]
Err(e) == [ok |-> FALSE, err |-> e]

\* HashMap::insert: the value of an existing key is overwritten.
Insert(m, k, v) == [x \in (DOMAIN m) \cup {k} |-> IF x = k THEN v ELSE m[x]]

EmptyMap == [x \in {} |-> <<>>]

----------------------------------------------------------------------------
(* str helpers of the standard library, as the code uses them *)

\* char::to_lowercase on one byte: ASCII letters only change.
LowerByte(b) == IF b >= 65 /\ b <= 90 THEN b + 32 ELSE b

\* str::to_lowercase
ToLowercase(s) == [i \in 1..Len(s) |-> LowerByte(s[i])]

\* The first index from i on at which pat occurs in s, 0 if there is none.
RECURSIVE FindFrom(_, _, _)
FindFrom(s, pat, i) ==
    IF i + Len(pat) - 1 > Len(s) THEN 0
    ELSE IF \A j \in 1..Len(pat) : s[i + j - 1] = pat[j] THEN i
    ELSE FindFrom(s, pat, i + 1)

\* str::find: the first index at which pat occurs in s, 0 if it does not.
Find(s, pat) == FindFrom(s, pat, 1)

\* str::split_once: the parts before and after the first occurrence of pat.
SplitOnce(s, pat) ==
    LET i == Find(s, pat)
    IN  IF i = 0 THEN None
        ELSE Some(<<SubSeq(s, 1, i - 1), SubSeq(s, i + Len(pat), Len(s))>>)

\* str::split: the pieces between the occurrences of pat; never empty.
RECURSIVE Split(_, _)
Split(s, pat) ==
    LET i == Find(s, pat)
    IN  IF i = 0 THEN <<s>>
        ELSE <<SubSeq(s, 1, i - 1)>> \o Split(SubSeq(s, i + Len(pat), Len(s)), pat)

\* str::splitn(2, pat): at most two pieces, cut at the first occurrence.
Splitn2(s, pat) ==
    LET i == Find(s, pat)
    IN  IF i = 0 THEN <<s>>
        ELSE <<SubSeq(s, 1, i - 1), SubSeq(s, i + Len(pat), Len(s))>>

LF == B("\n")

\* str::lines: pieces end at "\n"; one "\r" before that "\n" is dropped; a
\* last piece without "\n" is kept as it is; the empty string has no line.
RECURSIVE Lines(_)
Lines(s) ==
    IF Len(s) = 0 THEN <<>>
    ELSE LET i == Find(s, LF)
         IN  IF i = 0 THEN <<s>>
             ELSE LET l == SubSeq(s, 1, i - 1)
                      line == IF Len(l) > 0 /\ l[Len(l)] = 13
                              THEN SubSeq(l, 1, Len(l) - 1) ELSE l
                  IN  <<line>> \o Lines(SubSeq(s, i + 1, Len(s)))

\* str::trim_end_matches(c)
RECURSIVE TrimEndMatches(_, _)
TrimEndMatches(s, c) ==
    IF Len(s) > 0 /\ s[Len(s)] = c THEN TrimEndMatches(SubSeq(s, 1, Len(s) - 1), c)
    ELSE s

\* char::is_whitespace on one byte (the ASCII white space).
IsWhitespace(b) == b \in {9, 10, 11, 12, 13, 32}

\* str::trim_start: the index of the first byte of s from i on that is not
\* white space, Len(s) + 1 if there is none.
RECURSIVE TrimStartIndex(_, _)
TrimStartIndex(s, i) ==
    IF i <= Len(s) /\ IsWhitespace(s[i]) THEN TrimStartIndex(s, i + 1) ELSE i

\* str::trim_end: the index of the last byte of s up to i that is not white
\* space, 0 if there is none.
RECURSIVE TrimEndIndex(_, _)
TrimEndIndex(s, i) ==
    IF i >= 1 /\ IsWhitespace(s[i]) THEN TrimEndIndex(s, i - 1) ELSE i

\* str::trim
Trim(s) == SubSeq(s, TrimStartIndex(s, 1), TrimEndIndex(s, Len(s)))

\* usize::to_string
RECURSIVE UsizeToString(_)
UsizeToString(n) ==
    IF n < 10 THEN <<48 + n>>
    ELSE UsizeToString(n \div 10) \o <<48 + (n % 10)>>

\* The digits of s read as a decimal number (s holds digits only).
RECURSIVE DigitsValue(_)
DigitsValue(s) ==
    IF Len(s) = 0 THEN 0
    ELSE 10 * DigitsValue(SubSeq(s, 1, Len(s) - 1)) + (s[Len(s)] - 48)

\* str::parse to usize: an optional plus sign, then one or more decimal
\* digits. (The error parse gives for a value above usize::MAX is left out:
\* the values parsed here are far below it.)
ParseUsize(s) ==
    LET d == IF Len(s) > 0 /\ s[1] = 43 THEN SubSeq(s, 2, Len(s)) ELSE s
    IN  IF Len(d) > 0 /\ \A i \in 1..Len(d) : d[i] >= 48 /\ d[i] <= 57
        THEN Ok(DigitsValue(d))
        ELSE Err("ParseIntError")

\* Whether the bytes of b from index i on are well-formed UTF-8: one byte
\* below 128, or a lead byte and its continuation bytes.
RECURSIVE ValidUtf8From(_, _)
ValidUtf8From(b, i) ==
    LET Cont(k) == k <= Len(b) /\ b[k] >= 128 /\ b[k] <= 191
    IN  IF i > Len(b) THEN TRUE
        ELSE IF b[i] <= 127 THEN ValidUtf8From(b, i + 1)
        ELSE IF b[i] >= 194 /\ b[i] <= 223
             THEN Cont(i + 1) /\ ValidUtf8From(b, i + 2)
        ELSE IF b[i] >= 224 /\ b[i] <= 239
             THEN Cont(i + 1) /\ Cont(i + 2) /\ ValidUtf8From(b, i + 3)
        ELSE IF b[i] >= 240 /\ b[i] <= 244
             THEN Cont(i + 1) /\ Cont(i + 2) /\ Cont(i + 3) /\ ValidUtf8From(b, i + 4)
        ELSE FALSE

\* std::str::from_utf8: the bytes themselves when they are well-formed UTF-8.
FromUtf8(b) == IF ValidUtf8From(b, 1) THEN Ok(b) ELSE Err("Utf8Error")

----------------------------------------------------------------------------
(* Message grammar *)

ProtocolVariants == {"Http1_1", "Http1_0", "Http0_9"}
MethodVariants == {"Connect", "Get", "Post"}
StatusCodeVariants == {"Ok", "NoContent", "NotFound"}

\* impl Display for StatusCode
StatusCodeDisplay(sc) ==
    CASE sc = "Ok" -> B("200 Okay")
      [] sc = "NoContent" -> B("204 No Content")
      [] sc = "NotFound" -> B("404 Not Found")

\* impl From<Protocol> for &str
ProtocolInto(p) ==
    CASE p = "Http1_1" -> B("HTTP/1.1")
      [] p = "Http1_0" -> B("HTTP/1.0")
      [] p = "Http0_9" -> B("HTTP/0.9")

\* The match arms of the two TryFrom implementations.
HTTP_1_1_LOWER == B("http/1.1")
HTTP_1_0_LOWER == B("http/1.0")
HTTP_0_9_LOWER == B("http/0.9")
CONNECT_LOWER == B("connect")
GET_LOWER == B("get")
POST_LOWER == B("post")

\* A parser that compares the token as it is, without lower-casing it.
ProtocolTryFromCaseSensitive(value) ==
    IF value = HTTP_1_1_LOWER THEN Ok("Http1_1")
    ELSE IF value = HTTP_1_0_LOWER THEN Ok("Http1_0")
    ELSE IF value = HTTP_0_9_LOWER THEN Ok("Http0_9")
    ELSE Err("InvalidProtocol")

\* impl TryFrom<&str> for Protocol
ProtocolTryFrom(value) ==
    LET v == ToLowercase(value)
    IN  IF v = HTTP_1_1_LOWER THEN Ok("Http1_1")
        ELSE IF v = HTTP_1_0_LOWER THEN Ok("Http1_0")
        ELSE IF v = HTTP_0_9_LOWER THEN Ok("Http0_9")
        ELSE Err("InvalidProtocol")

\* impl TryFrom<&str> for Method
MethodTryFrom(value) ==
    LET v == ToLowercase(value)
    IN  IF v = CONNECT_LOWER THEN Ok("Connect")
        ELSE IF v = GET_LOWER THEN Ok("Get")
        ELSE IF v = POST_LOWER THEN Ok("Post")
        ELSE Err("InvalidMethod")

----------------------------------------------------------------------------
(* Request decoder *)

CRLFCRLF == B("\r\n\r\n")
CRLF == B("\r\n")
SP == B(" ")
QMARK == B("?")
AMP == B("&")
EQ == B("=")
COLON == B(":")
SLASH == Code("/")
CONTENT_LENGTH_LOWER == B("content-length")

\* The results a call of from_bytes can end in: a Request, or a panic at the
\* unwrap() of the given source line.
Panic(line) == [kind |-> "panic", at |-> line]
Decoded(r) == [kind |-> "request", req |-> r]
NotCalled == [kind |-> "none"]

\* Lines 182-187: the query segments inserted in order; None when a segment
\* has no "=" (the unwrap of line 185 panics).
RECURSIVE Queries(_, _)
Queries(parts, queries) ==
    IF Len(parts) = 0 THEN Some(queries)
    ELSE LET kv == SplitOnce(parts[1], EQ)
         IN  IF ~kv.some THEN None
             ELSE Queries(Tail(parts), Insert(queries, kv.val[1], kv.val[2]))

\* A header loop that keeps the first value of a repeated key.
RECURSIVE HeadersFirstWins(_, _)
HeadersFirstWins(lines, headers) ==
    IF Len(lines) = 0 THEN Some(headers)
    ELSE LET kv == SplitOnce(lines[1], COLON)
         IN  IF ~kv.some THEN None
             ELSE LET key == ToLowercase(Trim(kv.val[1]))
                  IN  HeadersFirstWins(Tail(lines),
                          IF key \in DOMAIN headers THEN headers
                          ELSE Insert(headers, key, Trim(kv.val[2])))

\* A header loop that stores the keys as they are spelled.
RECURSIVE HeadersKeepCase(_, _)
HeadersKeepCase(lines, headers) ==
    IF Len(lines) = 0 THEN Some(headers)
    ELSE LET kv == SplitOnce(lines[1], COLON)
         IN  IF ~kv.some THEN None
             ELSE HeadersKeepCase(Tail(lines),
                                  Insert(headers, Trim(kv.val[1]), Trim(kv.val[2])))

\* Lines 195-199: the header lines inserted in order; None when a line has
\* no ":" (the unwrap of line 197 panics).
RECURSIVE Headers(_, _)
Headers(lines, headers) ==
    IF Len(lines) = 0 THEN Some(headers)
    ELSE LET kv == SplitOnce(lines[1], COLON)
         IN  IF ~kv.some THEN None
             ELSE Headers(Tail(lines),
                          Insert(headers, ToLowercase(Trim(kv.val[1])), Trim(kv.val[2])))

\* Line 179 without the trim_end_matches call.
PathUntrimmed(prefix) == prefix

\* Line 179: the path is the part before "?" without its trailing slashes.
Path(prefix) == TrimEndMatches(prefix, SLASH)

\* Lines 180-191: Some(query) when from_bytes gets past them, None when the
\* unwrap of line 185 panics; query itself is an Option.
Query(uri) ==
    IF Len(uri) < 2 THEN Some(None)
    ELSE LET q == Queries(Split(uri[2], AMP), EmptyMap)
         IN  IF q.some THEN Some(Some(q.val)) ELSE None

\* Line 201 with the body cut at its first line end.
BodyFirstLine(body) ==
    LET i == Find(body, CRLF) IN IF i = 0 THEN body ELSE SubSeq(body, 1, i - 1)

\* Line 201: the body is the text after the separator, as it is.
Body(body) == body

\* Request::from_bytes
FromBytes(b) ==
    LET raw_str == FromUtf8(b)
    IN  IF ~raw_str.ok THEN Panic(172)
        ELSE
    LET split == SplitOnce(raw_str.val, CRLFCRLF)
    IN  IF ~split.some THEN Panic(173)
        ELSE
    LET raw_headers == Lines(split.val[1])
        body == split.val[2]
    IN  IF Len(raw_headers) = 0 THEN Panic(176)
        ELSE
    LET first_line == Split(raw_headers[1], SP)
        method == MethodTryFrom(first_line[1])
    IN  IF ~method.ok THEN Panic(177)
        ELSE IF Len(first_line) < 2 THEN Panic(178)
        ELSE
    LET uri == Splitn2(first_line[2], QMARK)
        path == Path(uri[1])
        query == Query(uri)
    IN  IF ~query.some THEN Panic(185)
        ELSE IF Len(first_line) < 3 THEN Panic(193)
        ELSE
    LET protocol == ProtocolTryFrom(first_line[3])
    IN  IF ~protocol.ok THEN Panic(193)
        ELSE
    LET headers == Headers(Tail(raw_headers), EmptyMap)
    IN  IF ~headers.some THEN Panic(197)
        ELSE Decoded([headers |-> headers.val,
                      body |-> Body(body),
                      protocol |-> protocol.val,
                      method |-> method.val,
                      path |-> path,
                      query |-> query.val])

\* Request::content_len
ContentLen(r) ==
    IF CONTENT_LENGTH_LOWER \notin DOMAIN r.headers THEN 0
    ELSE LET n == ParseUsize(r.headers[CONTENT_LENGTH_LOWER])
         IN  IF n.ok THEN n.val ELSE 0

----------------------------------------------------------------------------
(* Response builder and encoder *)

CONTENT_LENGTH == B("Content-Length")

\* Response::new
New ==
    [protocol |-> "Http1_1",
     status_code |-> "Ok",
     headers |-> EmptyMap,
     body |-> None]

\* Response::set_status_code
SetStatusCode(r, status_code) == [r EXCEPT !.status_code = status_code]

\* Response::add_header
AddHeader(r, key, value) == [r EXCEPT !.headers = Insert(r.headers, key, value)]

\* A set_body that also puts the status code back to its default.
SetBodyResetsStatus(r, body) == [r EXCEPT !.body = Some(body), !.status_code = "Ok"]

\* Response::set_body
SetBody(r, body) == [r EXCEPT !.body = Some(body)]

\* A length that counts characters: the bytes that start one.
RECURSIVE CharCount(_)
CharCount(body) ==
    IF Len(body) = 0 THEN 0
    ELSE (IF body[1] >= 128 /\ body[1] <= 191 THEN 0 ELSE 1) + CharCount(Tail(body))

\* String::len (line 119): the number of bytes.
BodyLen(body) == Len(body)

\* The orders a HashMap of these keys can be iterated in.
IterOrders(keys) ==
    {f \in [1..Cardinality(keys) -> keys] :
        \A a, b \in 1..Cardinality(keys) : a # b => f[a] # f[b]}

\* Lines 124-127: one "k: v\r\n" per entry, in the order of the iteration.
RECURSIVE HeaderText(_, _, _)
HeaderText(headers, order, i) ==
    IF i > Len(order) THEN <<>>
    ELSE order[i] \o B(": ") \o headers[order[i]] \o CRLF
         \o HeaderText(headers, order, i + 1)

\* Lines 117-120: with a body present, its length is stored under
\* "Content-Length", over any value the key had.
InsertContentLength(r) ==
    IF r.body.some
    THEN Insert(r.headers, CONTENT_LENGTH, UsizeToString(BodyLen(r.body.val)))
    ELSE r.headers

\* Response::serialise with the map iterated in the given order: the value
\* it leaves behind and the text it returns.
Serialise(r, order) ==
    LET protocol == ProtocolInto(r.protocol)
        status_code == StatusCodeDisplay(r.status_code)
        headers == InsertContentLength(r)
        body == IF r.body.some THEN r.body.val ELSE B("")
    IN  [resp |-> [r EXCEPT !.headers = headers, !.body = None],
         out |-> protocol \o SP \o status_code \o CRLF
                 \o HeaderText(headers, order, 1) \o CRLF \o body]

----------------------------------------------------------------------------
(* The inputs the model draws on *)

\* The most header lines a buffer is assembled from.
MaxHeaders == 2

\* The most calls made on one Response value.
MaxCalls == 3

\* The spellings of s with any of its lower-case letters in upper case.
CaseVariants(s) ==
    LET L == {i \in 1..Len(s) : s[i] >= 97 /\ s[i] <= 122}
    IN  {[i \in 1..Len(s) |-> IF i \in U THEN s[i] - 32 ELSE s[i]] : U \in SUBSET L}

GrammarTokens ==
    UNION {CaseVariants(B(t)) :
              t \in {"http/1.1", "http/1.0", "http/0.9", "connect", "get", "post"}}
    \cup {B("ftp/2.0"), B("delete"), B(""), B("http/1.2"), B("http/1.1 "),
          B(" get"), B("http1.1"), B("HTTP/2"), B("posts")}

MethodTokens == {B("GET"), B("Post"), B("DELETE")}
ProtocolTokens == {B("HTTP/1.1"), B("http/0.9"), B("ftp/2.0")}
TargetTokens ==
    {B("/"), B("/a/b//"), B("/a?x=1&y=2"), B("/a/?x=1&x=2&y=="),
     B("/?"), B("/a?x=1&y"), B("/a?x=1?/")}
ExtraToken == B("x")

\* The request lines: a method alone, a method and a request-target, the
\* three tokens, and the three tokens followed by one more.
RequestLines ==
    {<<m>> : m \in MethodTokens}
    \cup {<<m, t>> : m \in MethodTokens, t \in TargetTokens}
    \cup {<<m, t, p>> : m \in MethodTokens, t \in TargetTokens, p \in ProtocolTokens}
    \cup {<<m, t, p, ExtraToken>> :
              m \in MethodTokens, t \in TargetTokens, p \in ProtocolTokens}

HeaderLines ==
    {B("Host: h"), B(" CONTENT-length :  +12 "), B("content-length:-1"), B("nocolon")}
Bodies == {B(""), B("nope"), <<195, 169>> \o B("\r\n\r\nb"), <<110, 255>>}

HeaderKeys == {B("Content-Length"), B("content-length"), B("Host")}
HeaderValues == {B("h"), B("9")}
ResponseBodies == {B(""), B("nope"), <<195, 169>>}

\* The sequences over S of at most n elements.
RECURSIVE SeqsUpTo(_, _)
SeqsUpTo(S, n) ==
    IF n = 0 THEN {<<>>}
    ELSE LET R == SeqsUpTo(S, n - 1)
         IN  R \cup {Append(r, x) : r \in {q \in R : Len(q) = n - 1}, x \in S}

HeaderBlocks == SeqsUpTo(HeaderLines, MaxHeaders)

\* The pieces joined with sep between them.
RECURSIVE Join(_, _)
Join(pieces, sep) ==
    IF Len(pieces) = 0 THEN <<>>
    ELSE IF Len(pieces) = 1 THEN pieces[1]
    ELSE pieces[1] \o sep \o Join(Tail(pieces), sep)

\* The buffer the caller hands over: the tokens of the request line with
\* one space between them, the header lines, the separator if there is one,
\* the body.
Assemble(i) ==
    LET block == Join(<<Join(i.line, SP)>> \o i.headers, CRLF)
    IN  block \o (IF i.sep THEN CRLFCRLF ELSE CRLF) \o i.body

----------------------------------------------------------------------------
(* Grammar: the conversions called on tokens *)

NoResult == [fn |-> "none"]

InitGrammar ==
    /\ tok \in GrammarTokens
    /\ res = NoResult
    /\ rendered = None
    /\ buf = <<>> /\ inp = None /\ outcome = NotCalled /\ clen = None
    /\ resp = None /\ calls = <<>> /\ ser = None

\* Protocol::try_from(tok)
ProtocolTryFromCall ==
    /\ res' = [fn |-> "Protocol::try_from", r |-> ProtocolTryFrom(tok)]
    /\ UNCHANGED <<tok, rendered, requestVars, responseVars>>

\* Method::try_from(tok)
MethodTryFromCall ==
    /\ res' = [fn |-> "Method::try_from", r |-> MethodTryFrom(tok)]
    /\ UNCHANGED <<tok, rendered, requestVars, responseVars>>

\* <&str>::from(p) of a Protocol p a parse returned: the token is now its text.
ProtocolIntoCall ==
    /\ res.fn = "Protocol::try_from"
    /\ res.r.ok
    /\ tok' = ProtocolInto(res.r.val)
    /\ rendered' = Some(res.r.val)
    /\ res' = NoResult
    /\ UNCHANGED <<requestVars, responseVars>>

NextGrammar == ProtocolTryFromCall \/ MethodTryFromCall \/ ProtocolIntoCall

SpecGrammar == InitGrammar /\ [][NextGrammar]_vars

----------------------------------------------------------------------------
(* Decoder: one call of Request::from_bytes, then the accessors *)

InitRequest ==
    /\ \E l \in RequestLines, h \in HeaderBlocks, s \in BOOLEAN, b \in Bodies :
          inp = [line |-> l, headers |-> h, sep |-> s, body |-> b]
    /\ buf = Assemble(inp)
    /\ outcome = NotCalled
    /\ clen = None
    /\ tok = <<>> /\ res = NoResult /\ rendered = None
    /\ resp = None /\ calls = <<>> /\ ser = None

\* Request::from_bytes(buf)
FromBytesCall ==
    /\ outcome = NotCalled
    /\ outcome' = FromBytes(buf)
    /\ UNCHANGED <<buf, inp, clen, grammarVars, responseVars>>

\* request.content_len()
ContentLenCall ==
    /\ outcome.kind = "request"
    /\ clen = None
    /\ clen' = Some(ContentLen(outcome.req))
    /\ UNCHANGED <<buf, inp, outcome, grammarVars, responseVars>>

NextRequest == FromBytesCall \/ ContentLenCall

SpecRequest == InitRequest /\ [][NextRequest]_vars

----------------------------------------------------------------------------
(* What the claims about the decoder say, stated on the pieces of the     *)
(* buffer and not through the operators that model the code               *)

\* a and b are the same text when the case of ASCII letters is ignored.
ClaimEqIgnoreCase(a, b) ==
    /\ Len(a) = Len(b)
    /\ \A i \in 1..Len(a) :
          \/ a[i] = b[i]
          \/ a[i] >= 65 /\ a[i] <= 90 /\ b[i] = a[i] + 32
          \/ b[i] >= 65 /\ b[i] <= 90 /\ a[i] = b[i] + 32

ClaimHas(s, byte) == \E i \in 1..Len(s) : s[i] = byte

\* The index of the first occurrence of byte in s, Len(s) + 1 if none.
ClaimFirst(s, byte) ==
    CHOOSE k \in 1..(Len(s) + 1) :
        /\ k <= Len(s) => s[k] = byte
        /\ \A i \in 1..(k - 1) : s[i] # byte

ClaimBefore(s, byte) == SubSeq(s, 1, ClaimFirst(s, byte) - 1)
ClaimAfter(s, byte) == SubSeq(s, ClaimFirst(s, byte) + 1, Len(s))

ClaimValidMethod(t) ==
    \E m \in {B("CONNECT"), B("GET"), B("POST")} : ClaimEqIgnoreCase(t, m)

ClaimValidProtocol(t) ==
    \E v \in {B("HTTP/1.1"), B("HTTP/1.0"), B("HTTP/0.9")} : ClaimEqIgnoreCase(t, v)

\* The segments of q between its "&": pairs <<a, b>> of neighbouring cut
\* points, the segment being the bytes a+1 .. b-1.
ClaimSegments(q) ==
    LET Cuts == {0, Len(q) + 1} \cup {i \in 1..Len(q) : q[i] = 38}
    IN  {c \in Cuts \X Cuts :
            c[1] < c[2] /\ \A d \in Cuts : ~(c[1] < d /\ d < c[2])}

ClaimSegment(q, c) == SubSeq(q, c[1] + 1, c[2] - 1)

\* s without the white space at its two ends: from its first to its last
\* byte that is not white space.
ClaimTrimmed(s) ==
    LET K == {i \in 1..Len(s) : s[i] \notin {9, 10, 11, 12, 13, 32}}
    IN  IF K = {} THEN <<>>
        ELSE SubSeq(s, CHOOSE m \in K : \A n \in K : m <= n,
                       CHOOSE m \in K : \A n \in K : n <= m)

ClaimPow10[k \in 0..12] == IF k = 0 THEN 1 ELSE 10 * ClaimPow10[k - 1]

\* v is decimal digits, after an optional plus sign, of value n.
ClaimParsesAs(v, n) ==
    LET d == IF Len(v) > 0 /\ v[1] = 43 THEN SubSeq(v, 2, Len(v)) ELSE v
        Digit(i) == d[i] - 48
        Sum[i \in 0..Len(d)] ==
            IF i = 0 THEN 0 ELSE Sum[i - 1] + Digit(i) * ClaimPow10[Len(d) - i]
    IN  /\ Len(d) > 0
        /\ \A i \in 1..Len(d) : Digit(i) \in 0..9
        /\ n = Sum[Len(d)]

ClaimParses(v) ==
    LET d == IF Len(v) > 0 /\ v[1] = 43 THEN SubSeq(v, 2, Len(v)) ELSE v
    IN  Len(d) > 0 /\ \A i \in 1..Len(d) : d[i] - 48 \in 0..9

\* The buffer is malformed in one of the ways the contract lists.
ClaimMalformed ==
    \/ ~ValidUtf8From(buf, 1)
    \/ ~inp.sep /\ Find(buf, CRLFCRLF) = 0
    \/ Len(inp.line) < 3
    \/ ~ClaimValidMethod(inp.line[1])
    \/ Len(inp.line) >= 3 /\ ~ClaimValidProtocol(inp.line[3])
    \/ \E i \in 1..Len(inp.headers) : ~ClaimHas(inp.headers[i], 58)
    \/ /\ Len(inp.line) >= 2
       /\ ClaimHas(inp.line[2], 63)
       /\ \E c \in ClaimSegments(ClaimAfter(inp.line[2], 63)) :
             ~ClaimHas(ClaimSegment(ClaimAfter(inp.line[2], 63), c), 61)

\* C1 (as claimed): on a buffer malformed in any of the listed ways,
\* from_bytes ends in a failure reported to the caller: it neither panics
\* nor returns a Request.
C1_MalformedFailsWithoutPanic ==
    (outcome.kind # "none" /\ ClaimMalformed) => outcome.kind \notin {"panic", "request"}

\* The buffer of the contract's example.
C4_Buffer == B("GET /a?x=1&y=2 HTTP/1.1\r\nHost: h\r\n\r\n")

\* C4 (as claimed): the example buffer decodes with path "a", query
\* {x: 1, y: 2} and headers {host: h}.
C4_ExampleDecodesPathA ==
    (buf = C4_Buffer /\ outcome.kind # "none") =>
        /\ outcome.kind = "request"
        /\ outcome.req.path = B("a")
        /\ outcome.req.query = Some([k \in {B("x"), B("y")} |-> IF k = B("x") THEN B("1") ELSE B("2")])
        /\ outcome.req.headers = [k \in {B("host")} |-> B("h")]

\* C4 (amended): the example buffer decodes with path "/a" (only trailing
\* slashes are removed), query present and equal to {x: 1, y: 2}, and
\* headers equal to {host: h}.
C4_ExampleDecodes ==
    (buf = C4_Buffer /\ outcome.kind # "none") =>
        /\ outcome.kind = "request"
        /\ outcome.req.path = B("/a")
        /\ outcome.req.query = Some([k \in {B("x"), B("y")} |-> IF k = B("x") THEN B("1") ELSE B("2")])
        /\ outcome.req.headers = [k \in {B("host")} |-> B("h")]

C4_Witness == buf = C4_Buffer /\ outcome.kind = "request"

\* The buffer is well-formed as C6 describes it: a request line of a valid
\* method, a request-target and a valid protocol, header lines that each
\* hold ":", the separator, then body text.
ClaimWellFormed ==
    /\ Len(inp.line) = 3
    /\ ClaimValidMethod(inp.line[1])
    /\ ClaimValidProtocol(inp.line[3])
    /\ \A i \in 1..Len(inp.headers) : ClaimHas(inp.headers[i], 58)
    /\ inp.sep
    /\ ValidUtf8From(inp.body, 1)

\* Every "&"-separated segment after the first "?" of the request-target
\* holds "=".
ClaimQueryWellFormed ==
    ClaimHas(inp.line[2], 63) =>
        \A c \in ClaimSegments(ClaimAfter(inp.line[2], 63)) :
            ClaimHas(ClaimSegment(ClaimAfter(inp.line[2], 63), c), 61)

\* C6 (as claimed): every well-formed buffer decodes, and the body is the
\* text after the first CRLF-CRLF, unchanged.
C6_WellFormedDecodes ==
    (outcome.kind # "none" /\ ClaimWellFormed) =>
        outcome.kind = "request" /\ outcome.req.body = inp.body

\* C6 (amended): every well-formed buffer whose request-target has no "?"
\* or has "=" in every "&"-separated segment after its first "?" decodes,
\* and the body is the text after the first CRLF-CRLF, unchanged and not
\* checked against content-length; a buffer that ends right after CRLF-CRLF
\* decodes with the empty body.
C6_WellFormedQueryDecodes ==
    (outcome.kind # "none" /\ ClaimWellFormed /\ ClaimQueryWellFormed) =>
        outcome.kind = "request" /\ outcome.req.body = inp.body

\* A body that holds a CRLF-CRLF of its own, under a content-length header
\* that disagrees with its length, decoded.
C6_Witness ==
    /\ outcome.kind = "request"
    /\ ClaimWellFormed
    /\ Find(inp.body, CRLFCRLF) # 0
    /\ B("content-length") \in DOMAIN outcome.req.headers
    /\ outcome.req.body = inp.body

\* The header lines whose name (the white-space-trimmed text before the
\* first ":") is "content-length" in any case.
ClaimContentLengthLines ==
    {i \in 1..Len(inp.headers) :
        ClaimEqIgnoreCase(ClaimTrimmed(ClaimBefore(inp.headers[i], 58)),
                          B("content-length"))}

C9_PathAndQuery ==
    outcome.kind = "request" =>
        LET target == inp.line[2]
            prefix == ClaimBefore(target, 63)
            path == outcome.req.path
            query == outcome.req.query
            q == ClaimAfter(target, 63)
            Key(c) == ClaimBefore(ClaimSegment(q, c), 61)
            Val(c) == ClaimAfter(ClaimSegment(q, c), 61)
        IN  /\ Len(path) <= Len(prefix)
            /\ path = SubSeq(prefix, 1, Len(path))
            /\ \A i \in (Len(path) + 1)..Len(prefix) : prefix[i] = 47
            /\ Len(path) > 0 => path[Len(path)] # 47
            /\ target = B("/") => path = B("")
            /\ query.some <=> ClaimHas(target, 63)
            /\ query.some =>
                  /\ DOMAIN query.val # {}
                  /\ DOMAIN query.val = {Key(c) : c \in ClaimSegments(q)}
                  /\ \A c \in ClaimSegments(q) :
                        (\A d \in ClaimSegments(q) : Key(d) = Key(c) => d[1] <= c[1])
                            => query.val[Key(c)] = Val(c)

\* A request-target with trailing slashes before "?" and a repeated key.
C9_Witness ==
    /\ outcome.kind = "request"
    /\ inp.line[2] = B("/a/?x=1&x=2&y==")
    /\ outcome.req.query.some

\* C10 (as claimed): a Request is decoded only from a request line of
\* exactly three space-separated tokens.
C10_ExactlyThreeTokens ==
    outcome.kind = "request" => Len(inp.line) = 3

----------------------------------------------------------------------------
(* Encoder: a Response value built by chained calls and serialised *)

InitResponse ==
    /\ resp = New
    /\ calls = <<>>
    /\ ser = None
    /\ tok = <<>> /\ res = NoResult /\ rendered = None
    /\ buf = <<>> /\ inp = None /\ outcome = NotCalled /\ clen = None

\* response = response.set_status_code(sc)
SetStatusCodeCall ==
    /\ Len(calls) < MaxCalls
    /\ \E sc \in StatusCodeVariants :
          /\ resp' = SetStatusCode(resp, sc)
          /\ calls' = Append(calls, [fn |-> "set_status_code", key |-> <<>>, arg |-> sc])
    /\ UNCHANGED <<ser, grammarVars, requestVars>>

\* response = response.add_header(k, v)
AddHeaderCall ==
    /\ Len(calls) < MaxCalls
    /\ \E k \in HeaderKeys, v \in HeaderValues :
          /\ resp' = AddHeader(resp, k, v)
          /\ calls' = Append(calls, [fn |-> "add_header", key |-> k, arg |-> v])
    /\ UNCHANGED <<ser, grammarVars, requestVars>>

\* response = response.set_body(b)
SetBodyCall ==
    /\ Len(calls) < MaxCalls
    /\ \E b \in ResponseBodies :
          /\ resp' = SetBody(resp, b)
          /\ calls' = Append(calls, [fn |-> "set_body", key |-> <<>>, arg |-> b])
    /\ UNCHANGED <<ser, grammarVars, requestVars>>

\* response.serialise(): the map is iterated in any order.
SerialiseCall ==
    /\ Len(calls) < MaxCalls
    /\ \E order \in IterOrders(DOMAIN InsertContentLength(resp)) :
          LET s == Serialise(resp, order)
          IN  /\ resp' = s.resp
              /\ ser' = Some([before |-> resp, after |-> s.resp, out |-> s.out])
    /\ calls' = Append(calls, [fn |-> "serialise", key |-> <<>>, arg |-> <<>>])
    /\ UNCHANGED <<grammarVars, requestVars>>

NextResponse == SetStatusCodeCall \/ AddHeaderCall \/ SetBodyCall \/ SerialiseCall

SpecResponse == InitResponse /\ [][NextResponse]_vars

----------------------------------------------------------------------------
(* What the claims about the encoder say *)

\* The number of places at which pat occurs in s.
ClaimOccurrences(s, pat) ==
    Cardinality({i \in 1..(Len(s) - Len(pat) + 1) :
                    \A j \in 1..Len(pat) : s[i + j - 1] = pat[j]})

\* The text of s after its first CRLF-CRLF.
ClaimBodySection(s) ==
    LET I == {i \in 1..(Len(s) - 3) :
                 s[i] = 13 /\ s[i + 1] = 10 /\ s[i + 2] = 13 /\ s[i + 3] = 10}
    IN  SubSeq(s, (CHOOSE i \in I : \A j \in I : i <= j) + 4, Len(s))

ClaimContentLengthLine == B("\r\nContent-Length: ")

\* C2 (as claimed): after any calls of set_status_code, set_body,
\* add_header with keys other than "Content-Length", and serialise, a
\* serialise made while the body is absent gives output without a
\* Content-Length header line and with an empty body section, a second
\* serialise on the same value included.
C2_AbsentBodyNoContentLength ==
    (/\ ser.some
     /\ ~ser.val.before.body.some
     /\ \A i \in 1..Len(calls) :
           ~(calls[i].fn = "add_header" /\ calls[i].key = B("Content-Length")))
        => /\ ClaimOccurrences(ser.val.out, ClaimContentLengthLine) = 0
           /\ ClaimBodySection(ser.val.out) = B("")

\* The calls i and j write the same field with different values.
ClaimConflict(cs, i, j) ==
    /\ cs[i].fn = cs[j].fn
    /\ cs[i].key = cs[j].key
    /\ cs[i].arg # cs[j].arg

ClaimApply(r, c) ==
    CASE c.fn = "set_status_code" -> SetStatusCode(r, c.arg)
      [] c.fn = "add_header" -> AddHeader(r, c.key, c.arg)
      [] c.fn = "set_body" -> SetBody(r, c.arg)

\* The value the calls cs give when made on Response::new() in the order p.
RECURSIVE ClaimApplyAll(_, _, _)
ClaimApplyAll(cs, p, n) ==
    IF n = 0 THEN New ELSE ClaimApply(ClaimApplyAll(cs, p, n - 1), cs[p[n]])

ClaimPermutations(n) ==
    {p \in [1..n -> 1..n] : \A a, b \in 1..n : a # b => p[a] # p[b]}

ClaimBuilderCallsOnly == \A i \in 1..Len(calls) : calls[i].fn # "serialise"

\* C3 (as claimed): the builder calls made on Response::new() give the same
\* value in every order.
C3_BuilderCallsCommute ==
    ClaimBuilderCallsOnly =>
        \A p \in ClaimPermutations(Len(calls)) :
            ClaimApplyAll(calls, p, Len(calls)) = resp

\* C3 (amended): builder calls of which no two write the same field
\* (the status code, the body, or the header of one key) with different
\* values give the same value, and so the same serialised output up to the
\* order of the header lines, in every order.
C3_DisjointBuilderCallsCommute ==
    (/\ ClaimBuilderCallsOnly
     /\ \A i, j \in 1..Len(calls) : ~ClaimConflict(calls, i, j))
        => \A p \in ClaimPermutations(Len(calls)) :
               /\ ClaimApplyAll(calls, p, Len(calls)) = resp
               /\ {Serialise(ClaimApplyAll(calls, p, Len(calls)), o).out :
                      o \in IterOrders(DOMAIN InsertContentLength(resp))}
                  = {Serialise(resp, o).out :
                        o \in IterOrders(DOMAIN InsertContentLength(resp))}

\* One call of each kind made, none of them leaving the default in place.
C3_Witness ==
    /\ Len(calls) = 3
    /\ {calls[i].fn : i \in 1..3} = {"set_status_code", "add_header", "set_body"}
    /\ resp.status_code = "NotFound"
    /\ resp.body = Some(B("nope"))
    /\ DOMAIN resp.headers = {B("Host")}

ClaimStatusText(sc) ==
    CASE sc = "Ok" -> B("200 Okay")
      [] sc = "NoContent" -> B("204 No Content")
      [] sc = "NotFound" -> B("404 Not Found")

ClaimProtocolText(p) ==
    CASE p = "Http1_1" -> B("HTTP/1.1")
      [] p = "Http1_0" -> B("HTTP/1.0")
      [] p = "Http0_9" -> B("HTTP/0.9")

\* The header lines of the entries of h in the order o, each "k: v" CRLF.
ClaimHeaderLines(h, o) ==
    LET Line(i) == o[i] \o <<58, 32>> \o h[o[i]] \o <<13, 10>>
        Text[i \in 0..Len(o)] == IF i = 0 THEN <<>> ELSE Text[i - 1] \o Line(i)
    IN  Text[Len(o)]

\* C5: serialise on a Response with a body gives exactly the protocol
\* token, a space, the status display string, CRLF, one "key: value" CRLF
\* line per header entry, an empty CRLF line, then the body and nothing
\* after it; the entries are those given through add_header except that
\* there is exactly one with key "Content-Length", whose value is the
\* decimal byte length of the body whatever add_header gave for that key.
C5_SerialiseWithBody ==
    (ser.some /\ ser.val.before.body.some) =>
        LET before == ser.val.before
            h == ser.val.after.headers
            body == before.body.val
            cl == B("Content-Length")
        IN  /\ DOMAIN h = (DOMAIN before.headers) \cup {cl}
            /\ \A k \in (DOMAIN before.headers) \ {cl} : h[k] = before.headers[k]
            /\ ClaimParsesAs(h[cl], Len(body))
            /\ h[cl][1] # 43
            /\ Len(h[cl]) > 1 => h[cl][1] # 48
            /\ ClaimOccurrences(ser.val.out, ClaimContentLengthLine) = 1
            /\ \E keys \in [1..Cardinality(DOMAIN h) -> DOMAIN h] :
                  /\ {keys[i] : i \in 1..Cardinality(DOMAIN h)} = DOMAIN h
                  /\ ser.val.out = ClaimProtocolText(before.protocol) \o <<32>>
                                   \o ClaimStatusText(before.status_code) \o <<13, 10>>
                                   \o ClaimHeaderLines(h, keys)
                                   \o <<13, 10>> \o body
            /\ (before = [New EXCEPT !.status_code = "NotFound", !.body = Some(B("nope"))])
                  => ser.val.out = B("HTTP/1.1 404 Not Found\r\nContent-Length: 4\r\n\r\nnope")

\* A body of one two-byte character serialised over a Content-Length given
\* through add_header, with status 404.
C5_Witness ==
    /\ ser.some
    /\ ser.val.before.body = Some(<<195, 169>>)
    /\ B("Content-Length") \in DOMAIN ser.val.before.headers
    /\ ser.val.after.headers[B("Content-Length")] = B("2")

----------------------------------------------------------------------------
(* What the claim about the grammar says *)

\* C8: the canonical text of each of the three Protocol variants parses
\* back to that variant; a token parses to a variant exactly when it is
\* that variant's text in any case, and every other token fails with
\* InvalidProtocol.
C8_ProtocolRoundTrip ==
    /\ \A p \in ProtocolVariants : ProtocolInto(p) = ClaimProtocolText(p)
    /\ (res.fn = "Protocol::try_from" /\ rendered.some) => res.r = Ok(rendered.val)
    /\ res.fn = "Protocol::try_from" =>
          /\ \A p \in {"Http1_1", "Http1_0", "Http0_9"} :
                ClaimEqIgnoreCase(tok, ClaimProtocolText(p)) <=> res.r = Ok(p)
          /\ (\A p \in {"Http1_1", "Http1_0", "Http0_9"} :
                 ~ClaimEqIgnoreCase(tok, ClaimProtocolText(p)))
                => res.r = Err("InvalidProtocol")
          /\ tok = B("ftp/2.0") => res.r = Err("InvalidProtocol")

\* HTTP/0.9 parsed from a token, rendered, and parsed again.
C8_Witness ==
    /\ rendered = Some("Http0_9")
    /\ tok = B("HTTP/0.9")
    /\ res.fn = "Protocol::try_from"
    /\ res.r.ok

====
